---- MODULE Spec2Model ----
(***************************************************************************)
(* Ed25519 key generation and WebCrypto-backed signing / verification      *)
(* sessions of packages/crypto/src/keys/ed25519/index.browser.ts.          *)
(*                                                                         *)
(* Byte buffers are sequences of 0..255.  A Uint8Array that is handed to   *)
(* hashAndVerify is a view [buffer, byteOffset, length] because the code   *)
(* reads its .buffer.  The curve primitive, the base64url helper and the   *)
(* WebCrypto engine are collaborators: the curve is a fixed deterministic  *)
(* function, base64url is computed bit for bit, and the engine answers     *)
(* each call asynchronously, honestly or with a transient failure.         *)
(***************************************************************************)
EXTENDS Integers, Sequences, FiniteSets, TLC

PUBLIC_KEY_BYTE_LENGTH == 32
PRIVATE_KEY_BYTE_LENGTH == 64
KEYS_BYTE_LENGTH == 32

\* Bounds of the model.
MaxSessions == 2
MaxInvocations == 2
MaxRandom == 1
MaxSeedCalls == 2

Null == [type |-> "null"]

Min(a, b) == IF a < b THEN a ELSE b

Pow2(n) == 2 ^ n

(***************************************************************************)
(* Collaborators.                                                          *)
(***************************************************************************)

\* ed.getPublicKey: deterministic, 32 bytes in, 32 bytes out.
GetPublicKey(seed) ==
  [i \in 1..32 |-> (5 * seed[i] + 3 * seed[33 - i] + i) % 256]

\* Uint8Array.prototype.subarray(begin[, end]) on a plain byte sequence.
Subarray(a, begin, end) ==
  SubSeq(a, Min(begin, Len(a)) + 1, Min(end, Len(a)))

\* uint8arrayToString(bytes, 'base64url'): unpadded base64url, as the
\* sequence of 6-bit digits of the bit stream of bytes.
Base64urlEncode(bytes) ==
  LET n == Len(bytes)
      B(i) == IF i <= n THEN bytes[i] ELSE 0
      m == (8 * n + 5) \div 6
  IN [k \in 1..m |->
        LET j == (6 * (k - 1)) \div 8 + 1
            off == (6 * (k - 1)) % 8
        IN ((B(j) * 256 + B(j + 1)) \div Pow2(10 - off)) % 64]

\* The engine's decoding of a base64url JWK member.
Base64urlDecode(chars) ==
  LET m == Len(chars)
      C(i) == IF i <= m THEN chars[i] ELSE 0
      n == (6 * m) \div 8
  IN [i \in 1..n |->
        LET j == (8 * (i - 1)) \div 6 + 1
            off == (8 * (i - 1)) % 6
        IN ((C(j) * 4096 + C(j + 1) * 64 + C(j + 2)) \div Pow2(10 - off)) % 256]

\* msg instanceof Uint8Array ? msg : msg.subarray(): one contiguous buffer.
RECURSIVE ConcatChunks(_)
ConcatChunks(chunks) ==
  IF chunks = <<>> THEN <<>> ELSE Head(chunks) \o ConcatChunks(Tail(chunks))

Flatten(msg) ==
  IF msg.isList THEN ConcatChunks(msg.chunks) ELSE msg.chunks[1]

\* The trusted Ed25519 primitive behind the engine: sign(seed, message) and
\* verify(public_key, signature, message).
RECURSIVE Digest(_)
Digest(data) ==
  IF data = <<>> THEN 7 ELSE (31 * Digest(Tail(data)) + Head(data)) % 256

EdSign(seed, data) ==
  LET pub == GetPublicKey(seed)
      h == Digest(data)
  IN [i \in 1..64 |->
        IF i <= 32 THEN (pub[i] + h + i) % 256
        ELSE (3 * seed[i - 32] + 11 * h) % 256]

Seed1 == [i \in 1..32 |-> 1]
Seed2 == [i \in 1..32 |-> (7 * i) % 256]
Seeds == {Seed1, Seed2}

EdVerify(pub, sig, data) ==
  /\ Len(sig) = 64
  /\ \E s \in Seeds : GetPublicKey(s) = pub /\ EdSign(s, data) = sig

(***************************************************************************)
(* Values.                                                                 *)
(***************************************************************************)

Err(name) == [type |-> "error", error |-> name]
Val(v) == [type |-> "value", value |-> v]
Pending == [type |-> "pending"]

IsErr(r) == r.type = "error"

\* A Uint8Array that owns its whole buffer, and a view into a larger one.
View(bytes) == [buffer |-> bytes, byteOffset |-> 0, length |-> Len(bytes)]
SubView(bytes, begin) ==
  [buffer |-> bytes, byteOffset |-> begin, length |-> Len(bytes) - begin]
ViewBytes(u) == SubSeq(u.buffer, u.byteOffset + 1, u.byteOffset + u.length)

(***************************************************************************)
(* State.                                                                  *)
(***************************************************************************)
VARIABLES
  rng,              \* the 32 bytes the secure random source hands out next
  entropy,          \* number of draws from the secure random source
  returned,         \* every KeyPair returned so far, with the call that made it
  lastGen,          \* the last generateKey / generateKeyFromSeed call
  seedCalls,        \* per seed, the generateKeyFromSeed calls that returned
  engineAvailable,  \* whether the host has a WebCrypto engine
  prepared,         \* number of sessions prepared so far
  session,          \* the closure of the session under observation
  key,              \* that closure's `key` variable
  invs,             \* the invocations of the returned function, in start order
  produced          \* signatures that sign() invocations resolved to

genVars == <<rng, entropy, returned, lastGen, seedCalls>>
sessVars == <<prepared, session, key, invs, produced>>
vars == <<rng, entropy, returned, lastGen, seedCalls, engineAvailable,
          prepared, session, key, invs, produced>>

(***************************************************************************)
(* Key generation.                                                         *)
(***************************************************************************)

concatKeysSeedTwice(privateKeyRaw, publicKey) ==
  [i \in 1..PRIVATE_KEY_BYTE_LENGTH |->
     IF i <= KEYS_BYTE_LENGTH THEN privateKeyRaw[i]
     ELSE privateKeyRaw[i - KEYS_BYTE_LENGTH]]

\* concatKeys, lines 87-94.
concatKeys(privateKeyRaw, publicKey) ==
  [i \in 1..PRIVATE_KEY_BYTE_LENGTH |->
     IF i <= KEYS_BYTE_LENGTH THEN privateKeyRaw[i]
     ELSE publicKey[i - KEYS_BYTE_LENGTH]]

KeyPair(privateKey, publicKey) ==
  [type |-> "value", privateKey |-> privateKey, publicKey |-> publicKey]

\* The body of generateKey once ed.utils.randomPrivateKey() has returned.
KeyPairOf(privateKeyRaw) ==
  LET publicKey == GetPublicKey(privateKeyRaw)
  IN KeyPair(concatKeys(privateKeyRaw, publicKey), publicKey)

\* seed.length !== KEYS_BYTE_LENGTH
BadSeedLengthOnlyShort(seed) == seed.length < KEYS_BYTE_LENGTH

BadSeedLength(seed) == seed.length # KEYS_BYTE_LENGTH

\* !(seed instanceof Uint8Array)
NotUint8ArrayNever(seed) == FALSE

NotUint8Array(seed) == ~seed.isUint8Array

\* const privateKeyRaw = seed
SeedPrivateKeyRawFromRng(seed) == rng

SeedPrivateKeyRaw(seed) == seed.bytes

\* generateKeyFromSeed, lines 31-48.  A seed argument is
\* [isUint8Array, length, bytes]; both throws are TypeErrors, told apart
\* by their message.
generateKeyFromSeed(seed) ==
  IF BadSeedLength(seed) THEN Err("InvalidSeedLength")
  ELSE IF NotUint8Array(seed) THEN Err("InvalidSeedType")
  ELSE KeyPairOf(SeedPrivateKeyRaw(seed))

\* Arguments tried: Uint8Arrays of the two seeds and of the wrong lengths,
\* and plain arrays (not Uint8Array) of length 31, 32 and 64.
BadLengths == {0, 16, 31, 33, 64}
Bytes(n) == [i \in 1..n |-> (i * 3) % 256]
SeedArg(bytes) == [isUint8Array |-> TRUE, length |-> Len(bytes), bytes |-> bytes]
SeedArgs ==
  {SeedArg(s) : s \in Seeds}
    \cup {SeedArg(Bytes(n)) : n \in BadLengths}
    \cup {[isUint8Array |-> FALSE, length |-> n, bytes |-> Bytes(n)] : n \in {31, 32, 64}}

GenerateKey ==
  /\ entropy < MaxRandom
  /\ \E next \in Seeds :
       LET kp == KeyPairOf(rng)
       IN /\ rng' = next
          /\ entropy' = entropy + 1
          /\ returned' = returned \cup
               {[op |-> "generateKey", seed |-> rng, keyPair |-> kp]}
          /\ lastGen' = [op |-> "generateKey", seed |-> <<>>, result |-> kp]
  /\ UNCHANGED <<seedCalls, engineAvailable, sessVars>>

GenerateKeyFromSeed ==
  /\ \E seed \in SeedArgs :
       LET r == generateKeyFromSeed(seed)
       IN /\ seed.bytes \in Seeds => seedCalls[seed.bytes] < MaxSeedCalls
          /\ seedCalls' = IF ~IsErr(r) /\ seed.bytes \in Seeds
                          THEN [seedCalls EXCEPT ![seed.bytes] = @ + 1]
                          ELSE seedCalls
          /\ returned' = IF IsErr(r) THEN returned
                         ELSE returned \cup
                           {[op |-> "generateKeyFromSeed", seed |-> seed.bytes,
                             keyPair |-> r]}
          /\ lastGen' = [op |-> "generateKeyFromSeed", seed |-> seed, result |-> r]
  /\ UNCHANGED <<rng, entropy, engineAvailable, sessVars>>

KeyPairs == {r.keyPair : r \in returned}

(***************************************************************************)
(* The WebCrypto engine (crypto.get().subtle).                             *)
(***************************************************************************)

\* A CryptoKey; every successful importKey allocates a new one (id).
Context(id, usage, material) ==
  [type |-> "CryptoKey", id |-> id, usage |-> usage, material |-> material]

\* importKey('jwk', jwk, ..., ['sign']): d must be a 32-byte seed and x its
\* public key.  Whether an x that does not match d is rejected depends on
\* the engine, so both answers are possible then.
ImportJwkAnswers(jwk, id) ==
  LET d == Base64urlDecode(jwk.d)
      x == Base64urlDecode(jwk.x)
  IN IF Len(d) # 32 THEN {Err("DataError")}
     ELSE IF x = GetPublicKey(d) THEN {Val(Context(id, "sign", d))}
     ELSE {Val(Context(id, "sign", d)), Err("DataError")}

\* importKey('raw', buffer, ..., ['verify']): the key must be 32 bytes.
ImportRawAnswers(buffer, id) ==
  IF Len(buffer) # 32 THEN {Err("DataError")}
  ELSE {Val(Context(id, "verify", buffer))}

\* Any engine call may also fail for a reason that is not the key's.
Transient == Err("OperationError")

SignAnswers(ctx, data) ==
  IF ctx = Null THEN {Err("TypeError")}
  ELSE IF ctx.usage # "sign" THEN {Err("InvalidAccessError")}
  ELSE {Val(EdSign(ctx.material, data)), Transient}

VerifyAnswers(ctx, sig, data) ==
  IF ctx = Null THEN {Err("TypeError")}
  ELSE IF ctx.usage # "verify" THEN {Err("InvalidAccessError")}
  ELSE {Val(EdVerify(ctx.material, sig, data)), Transient}

(***************************************************************************)
(* Sessions: hashAndSign and hashAndVerify.                                *)
(***************************************************************************)

\* Lines 53-58.
PrivateKeyRawWhole(privateKey) == privateKey

PrivateKeyRaw(privateKey) ==
  IF Len(privateKey) = PRIVATE_KEY_BYTE_LENGTH
  THEN Subarray(privateKey, 0, 32)
  ELSE privateKey

\* Lines 60-67.
Jwk(privateKey) ==
  [crv |-> "Ed25519", kty |-> "OKP",
   x |-> Base64urlEncode(Subarray(privateKey, 32, Len(privateKey))),
   d |-> Base64urlEncode(PrivateKeyRaw(privateKey))]

NoJwk == [crv |-> "", kty |-> "", x |-> <<>>, d |-> <<>>]

NoSession ==
  [kind |-> "none", privateKey |-> <<>>, jwk |-> NoJwk,
   publicKey |-> View(<<>>), sig |-> <<>>,
   msg |-> [isList |-> FALSE, chunks |-> <<<<>>>>],
   msgAtPreparation |-> [isList |-> FALSE, chunks |-> <<<<>>>>]]

\* Messages: a Uint8Array and a two-chunk Uint8ArrayList.
Messages ==
  {[isList |-> FALSE, chunks |-> <<<<1, 2>>>>],
   [isList |-> TRUE, chunks |-> <<<<1>>, <<3>>>>]}

\* Private keys handed to hashAndSign: a generated StoredPrivateKey, or its
\* bare 32-byte seed.
PrivateKeyArgs ==
  {kp.privateKey : kp \in KeyPairs}
    \cup {Subarray(kp.privateKey, 0, 32) : kp \in KeyPairs}

\* Public keys handed to hashAndVerify: a generated public key, the public
\* half of a stored private key as a sub-view, and a key one byte short.
PublicKeyArgs ==
  {View(kp.publicKey) : kp \in KeyPairs}
    \cup {SubView(kp.privateKey, 32) : kp \in KeyPairs}
    \cup {View(Subarray(kp.publicKey, 0, 31)) : kp \in KeyPairs}

\* One bit of the first byte flipped.
FlipBit(bytes) ==
  [bytes EXCEPT ![1] = IF bytes[1] % 2 = 0 THEN bytes[1] + 1 ELSE bytes[1] - 1]

\* A 64-byte signature that no session of this run produced.
ForeignSignature == [i \in 1..64 |-> 0]

\* Signatures handed to hashAndVerify: one a sign() resolved to, such a
\* signature with a bit flipped, or the foreign one.
SignatureArgs ==
  {p.sig : p \in produced} \cup {FlipBit(p.sig) : p \in produced}
    \cup {ForeignSignature}

\* hashAndSign, lines 50-68: what the closure captures.  No statement of
\* the preparation touches the engine.
hashAndSignEagerEngine(privateKey, msg) ==
  IF engineAvailable
  THEN [kind |-> "sign", privateKey |-> privateKey, jwk |-> Jwk(privateKey),
        publicKey |-> View(<<>>), sig |-> <<>>, msg |-> msg,
        msgAtPreparation |-> msg]
  ELSE [NoSession EXCEPT !.kind = "threw"]

hashAndSign(privateKey, msg) ==
  [kind |-> "sign", privateKey |-> privateKey, jwk |-> Jwk(privateKey),
   publicKey |-> View(<<>>), sig |-> <<>>, msg |-> msg,
   msgAtPreparation |-> msg]

\* hashAndVerify, lines 77-79.
hashAndVerify(publicKey, sig, msg) ==
  [kind |-> "verify", privateKey |-> <<>>, jwk |-> NoJwk,
   publicKey |-> publicKey, sig |-> sig, msg |-> msg,
   msgAtPreparation |-> msg]

(***************************************************************************)
(* Invocations of the returned async function.                             *)
(* Each runs to its next await in one step; the engine settles the         *)
(* awaited promise in a later step, in any order.                          *)
(***************************************************************************)

InFlight(inv) == inv.pc # "done"
Succeeded(inv) == inv.pc = "done" /\ inv.outcome.type = "value"

\* key ??= ...: the right-hand side is evaluated only when key is nullish.
NeedsImportNever(k) == FALSE

NeedsImportAlways(k) == TRUE

NeedsImport(k) == k = Null

\* ... and once the awaited importKey has fulfilled, its value is assigned.
KeyAfterImportKeepFirst(k, ctx) == IF k = Null THEN ctx ELSE k

KeyAfterImport(k, ctx) == ctx

\* An awaited engine promise rejects: nothing catches the error, so the
\* invocation rejects with it.
RejectedWrapped(inv, err) ==
  [inv EXCEPT !.pc = "done", !.outcome = Err("BackendError")]

Rejected(inv, err) == [inv EXCEPT !.pc = "done", !.outcome = err]

\* ... and when it has rejected, the await throws before the assignment.
KeyAfterRejectionCached(k, err) == Context(<<prepared, 0>>, "failed", <<>>)

KeyAfterRejection(k, err) == k

\* crypto.get() throws when the host has no WebCrypto.
MissingWebCrypto == Err("MissingWebCrypto")

\* msg instanceof Uint8Array ? msg : msg.subarray() is an argument of the
\* engine call: the container is read when the call is made.
MessageAtPreparation(s) == Flatten(s.msgAtPreparation)

MessageAtCall(s) == Flatten(s.msg)

\* The call of subtle.sign / subtle.verify: key and flattened message are
\* read when the call is made.
CallOp(inv, k) ==
  IF engineAvailable
  THEN [inv EXCEPT !.pc = "awaitOp", !.ctx = k, !.data = MessageAtCall(session),
                   !.opCalled = TRUE, !.calls = Append(@, session.kind)]
  ELSE [inv EXCEPT !.pc = "done", !.outcome = MissingWebCrypto]

\* An importKey call that joins a load another invocation has pending
\* instead of starting its own.
CallImportJoinsPending(inv) ==
  IF ~engineAvailable
  THEN [inv EXCEPT !.pc = "done", !.outcome = MissingWebCrypto]
  ELSE IF \E j \in 1..Len(invs) : invs[j].pc = "awaitImport"
  THEN [inv EXCEPT !.pc = "awaitOther"]
  ELSE [inv EXCEPT !.pc = "awaitImport", !.imported = TRUE,
                   !.calls = Append(@, "importKey")]

\* The call of subtle.importKey.
CallImport(inv) ==
  IF engineAvailable
  THEN [inv EXCEPT !.pc = "awaitImport", !.imported = TRUE,
                   !.calls = Append(@, "importKey")]
  ELSE [inv EXCEPT !.pc = "done", !.outcome = MissingWebCrypto]

NewInvocation ==
  [pc |-> "start", imported |-> FALSE, opCalled |-> FALSE,
   calls |-> <<>>, ctx |-> Null, data |-> <<>>, outcome |-> Pending,
   importAnswer |-> Pending, opAnswer |-> Pending,
   cached |-> key # Null,
   afterSuccess |-> \E i \in 1..Len(invs) : Succeeded(invs[i]),
   overlap |-> \E i \in 1..Len(invs) : InFlight(invs[i])]

\* let key: each call of hashAndSign / hashAndVerify declares its own,
\* unset variable, whatever an earlier session cached.
FreshKeyShared(k) == k

FreshKey(k) == Null

\* Lines 50-69 and 77-80 make no engine call before they return the closure.
PreparationCallsEager == <<CallImport(NewInvocation)>>

PreparationCalls == <<>>

HashAndSign ==
  /\ prepared < MaxSessions
  /\ \E privateKey \in PrivateKeyArgs, msg \in Messages :
       session' = hashAndSign(privateKey, msg)
  /\ prepared' = prepared + 1
  /\ key' = FreshKey(key)
  /\ invs' = PreparationCalls
  /\ UNCHANGED <<genVars, engineAvailable, produced>>

HashAndVerify ==
  /\ prepared < MaxSessions
  /\ \E publicKey \in PublicKeyArgs, sig \in SignatureArgs, msg \in Messages :
       session' = hashAndVerify(publicKey, sig, msg)
  /\ prepared' = prepared + 1
  /\ key' = FreshKey(key)
  /\ invs' = PreparationCalls
  /\ UNCHANGED <<genVars, engineAvailable, produced>>

\* The caller writes once into the Uint8ArrayList it handed over: the last
\* byte of the last chunk changes (2 becomes 3, anything else becomes 2).
\* The closure holds the container by reference (msg, lines 50 and 77).
Overwritten(msg) ==
  LET n == Len(msg.chunks)
      c == msg.chunks[n]
  IN [msg EXCEPT !.chunks[n] =
        [c EXCEPT ![Len(c)] = IF c[Len(c)] = 2 THEN 3 ELSE 2]]

MutateMessage ==
  /\ session.kind # "none"
  /\ session.msg.isList
  /\ session.msg = session.msgAtPreparation
  /\ session' = [session EXCEPT !.msg = Overwritten(session.msg)]
  /\ UNCHANGED <<genVars, engineAvailable, prepared, key, invs, produced>>

\* sign() / verify() is called: lines 69-72 and 80-82 up to the first await.
Invoke ==
  /\ session.kind # "none"
  /\ Len(invs) < MaxInvocations
  /\ invs' = Append(invs, IF NeedsImport(key) THEN CallImport(NewInvocation)
                          ELSE CallOp(NewInvocation, key))
  /\ UNCHANGED <<genVars, engineAvailable, prepared, session, key, produced>>

\* Line 81: the key data handed to importKey('raw', ...) is
\* publicKey.buffer, the whole buffer under the view.
RawKeyData(publicKey) == publicKey.buffer

ImportAnswers(id) ==
  (IF session.kind = "sign" THEN ImportJwkAnswers(session.jwk, id)
   ELSE ImportRawAnswers(RawKeyData(session.publicKey), id))
    \cup {Transient}

\* importKey fulfils: the assignment of line 70 / 81, then the engine call.
ImportKeyFulfilled(i) ==
  /\ invs[i].pc = "awaitImport"
  /\ \E ans \in ImportAnswers(<<prepared, i>>) :
       /\ ~IsErr(ans)
       /\ key' = KeyAfterImport(key, ans.value)
       /\ invs' = [invs EXCEPT
                     ![i] = CallOp([invs[i] EXCEPT !.importAnswer = ans], key')]
  /\ UNCHANGED <<genVars, engineAvailable, prepared, session, produced>>

\* importKey rejects: the await throws and the invocation rejects.
ImportKeyRejected(i) ==
  /\ invs[i].pc = "awaitImport"
  /\ \E ans \in ImportAnswers(<<prepared, i>>) :
       /\ IsErr(ans)
       /\ key' = KeyAfterRejection(key, ans)
       /\ invs' = [invs EXCEPT
                     ![i] = Rejected([invs[i] EXCEPT !.importAnswer = ans], ans)]
  /\ UNCHANGED <<genVars, engineAvailable, prepared, session, produced>>

OpAnswers(inv) ==
  IF session.kind = "sign" THEN SignAnswers(inv.ctx, inv.data)
  ELSE VerifyAnswers(inv.ctx, session.sig, inv.data)

\* new Uint8Array(buffer, 0, buffer.byteLength), line 73.
SignReturnHalf(buffer) == SubSeq(buffer, 1, Len(buffer) \div 2)

SignReturn(buffer) == SubSeq(buffer, 1, Len(buffer))

\* return isValid, line 83.
VerifyReturnThrowing(isValid) ==
  IF isValid THEN Val(TRUE) ELSE Err("InvalidSignature")

VerifyReturn(isValid) == Val(isValid)

\* subtle.sign / subtle.verify fulfils: the invocation resolves.
OpFulfilled(i) ==
  /\ invs[i].pc = "awaitOp"
  /\ \E ans \in OpAnswers(invs[i]) :
       /\ ~IsErr(ans)
       /\ LET out == IF session.kind = "sign" THEN Val(SignReturn(ans.value))
                     ELSE VerifyReturn(ans.value)
          IN /\ invs' = [invs EXCEPT ![i].pc = "done", ![i].outcome = out,
                                     ![i].opAnswer = ans]
             /\ produced' =
                  IF session.kind = "sign" /\ ~IsErr(out)
                  THEN produced \cup {[privateKey |-> session.privateKey,
                                       data |-> invs[i].data,
                                       sig |-> out.value]}
                  ELSE produced
  /\ UNCHANGED <<genVars, engineAvailable, prepared, session, key>>

\* subtle.sign / subtle.verify rejects: the invocation rejects.
OpRejected(i) ==
  /\ invs[i].pc = "awaitOp"
  /\ \E ans \in OpAnswers(invs[i]) :
       /\ IsErr(ans)
       /\ invs' = [invs EXCEPT
                     ![i] = Rejected([invs[i] EXCEPT !.opAnswer = ans], ans)]
  /\ UNCHANGED <<genVars, engineAvailable, prepared, session, key, produced>>

(***************************************************************************)
(* Specifications.                                                         *)
(***************************************************************************)

NoCall == [op |-> "none", seed |-> <<>>, result |-> Pending]

InitSessionState ==
  /\ prepared = 0
  /\ session = NoSession
  /\ key = Null
  /\ invs = <<>>
  /\ produced = {}

\* Key generation: nothing generated yet.
InitKeys ==
  /\ rng \in Seeds
  /\ entropy = 0
  /\ returned = {}
  /\ lastGen = NoCall
  /\ seedCalls = [s \in Seeds |-> 0]
  /\ engineAvailable \in BOOLEAN
  /\ InitSessionState

NextKeys == GenerateKey \/ GenerateKeyFromSeed

SpecKeys == InitKeys /\ [][NextKeys]_vars

\* Sessions: one key pair has been generated, from either seed.  No session
\* operation reads the random source, so one pending value stands for all.
InitSessions ==
  /\ rng = Seed1
  /\ entropy = 0
  /\ \E s \in Seeds :
       /\ returned = {[op |-> "generateKeyFromSeed", seed |-> s,
                       keyPair |-> generateKeyFromSeed(SeedArg(s))]}
       /\ seedCalls = [t \in Seeds |-> IF t = s THEN 1 ELSE 0]
  /\ lastGen = NoCall
  /\ engineAvailable \in BOOLEAN
  /\ InitSessionState

NextSessions ==
  \/ HashAndSign
  \/ HashAndVerify
  \/ Invoke
  \/ \E i \in 1..Len(invs) : ImportKeyFulfilled(i)
  \/ \E i \in 1..Len(invs) : ImportKeyRejected(i)
  \/ \E i \in 1..Len(invs) : OpFulfilled(i)
  \/ \E i \in 1..Len(invs) : OpRejected(i)

SpecSessions == InitSessions /\ [][NextSessions]_vars

\* Sessions whose caller keeps writing into the message container: one key
\* pair from Seed1 on a host with WebCrypto.
InitMutable ==
  /\ InitSessions
  /\ engineAvailable
  /\ \A r \in returned : r.seed = Seed1

NextMutable == NextSessions \/ MutateMessage

SpecMutable == InitMutable /\ [][NextMutable]_vars

\* The engine answers every importKey, sign and verify call it was handed.
EngineAnswers(i) ==
  /\ i <= Len(invs)
  /\ \/ ImportKeyFulfilled(i)
     \/ ImportKeyRejected(i)
     \/ OpFulfilled(i)
     \/ OpRejected(i)

\* One session, observed from its preparation on: the invocations of a
\* session concern that session alone, so no second one is prepared.
NextOneSession ==
  \/ prepared = 0 /\ HashAndSign
  \/ prepared = 0 /\ HashAndVerify
  \/ Invoke
  \/ \E i \in 1..Len(invs) : EngineAnswers(i)

SpecOneSessionFair ==
  /\ InitSessions
  /\ [][NextOneSession]_vars
  /\ \A i \in 1..MaxInvocations : WF_vars(EngineAnswers(i))

\* A host without WebCrypto: one key pair has come from generateKeyFromSeed,
\* then generateKey, preparation and invocation.  No engine call is ever
\* pending there, so the engine has nothing to answer.
InitAbsent == InitSessions /\ engineAvailable = FALSE

NextAbsent ==
  \/ GenerateKey
  \/ HashAndSign
  \/ HashAndVerify
  \/ Invoke

SpecAbsent == InitAbsent /\ [][NextAbsent]_vars

\* The whole module: generation and sessions together.  The properties
\* below are stated over its two parts, SpecKeys and SpecSessions.
Init == InitKeys

Next == NextKeys \/ NextSessions

Spec == Init /\ [][Next]_vars

(***************************************************************************)
(* Properties.                                                             *)
(***************************************************************************)

Range(f) == {f[i] : i \in 1..Len(f)}

ImportCalls == Cardinality({i \in 1..Len(invs) : invs[i].imported})
OpCalls == Cardinality({i \in 1..Len(invs) : invs[i].opCalled})
ContextsUsed == {inv.ctx : inv \in {v \in Range(invs) : v.ctx # Null}}

\* C1: when an invocation starts while the session's first context load is
\* still pending, it does not invoke import_key again, and the invocations
\* of one session never use two distinct contexts.
C1_SingleContextUnderRace ==
  /\ \A i \in 1..Len(invs) :
       (invs[i].overlap /\ ~invs[i].cached) => ~invs[i].imported
  /\ Cardinality(ContextsUsed) <= 1

\* C2: within one session, once the cached context is set, no later step
\* changes it.
C2_CachedContextNeverChanges ==
  [][(prepared' = prepared /\ key # Null) => key' = key]_vars

Sequential == \A i \in 1..Len(invs) : ~invs[i].overlap
AllSucceeded == \A i \in 1..Len(invs) : Succeeded(invs[i])

\* C3: an invocation that starts after an earlier invocation of the session
\* has completed successfully performs no import_key; n sequential
\* successful invocations cause exactly one import_key call and exactly n
\* engine sign/verify calls.
C3_SessionReuse ==
  /\ \A i \in 1..Len(invs) : invs[i].afterSuccess => ~invs[i].imported
  /\ (Sequential /\ AllSucceeded /\ Len(invs) > 0) =>
       (ImportCalls = 1 /\ OpCalls = Len(invs))

C3_Witness ==
  /\ session.kind = "sign"
  /\ Len(invs) >= 2
  /\ Sequential /\ AllSucceeded
  /\ invs[2].afterSuccess

\* C4: a signing session prepared with a bare 32-byte seed hands the engine
\* the same key material (d and x) as the session prepared with the 64-byte
\* StoredPrivateKey of that seed.
C4_BareSeedSameKeyMaterial ==
  (session.kind = "sign" /\ Len(session.privateKey) = 32 /\ ImportCalls > 0) =>
    session.jwk =
      hashAndSign(concatKeys(session.privateKey, GetPublicKey(session.privateKey)),
                  session.msg).jwk

\* The verification session checks, under the public key of a generated key
\* pair, a signature that a signing session produced with that pair's
\* private key over the same message.
RoundTripSession ==
  /\ session.kind = "verify"
  /\ \E kp \in KeyPairs, p \in produced :
       /\ session.publicKey = View(kp.publicKey)
       /\ p.privateKey = kp.privateKey
       /\ p.sig = session.sig
       /\ p.data = Flatten(session.msg)

\* C5: round trip: every verify() invocation of such a session that the
\* engine answers resolves to true.
C5_RoundTrip ==
  RoundTripSession =>
    \A i \in 1..Len(invs) :
      invs[i].pc = "done" => invs[i].outcome \in {Val(TRUE), Transient}

C5_Witness ==
  /\ RoundTripSession
  /\ \E i \in 1..Len(invs) : invs[i].pc = "done" /\ invs[i].outcome = Val(TRUE)

WrongLengthCall(g) ==
  /\ g.op = "generateKeyFromSeed"
  /\ g.seed.isUint8Array
  /\ g.seed.length # 32

\* C6: generateKeyFromSeed of a byte buffer whose length is not 32 fails
\* with InvalidSeedLength, returns no KeyPair and touches no session or
\* engine state.
C6_InvalidSeedLength ==
  /\ [](WrongLengthCall(lastGen) => lastGen.result = Err("InvalidSeedLength"))
  /\ [][WrongLengthCall(lastGen') =>
          (returned' = returned /\ UNCHANGED sessVars)]_vars

C6_Witness ==
  /\ WrongLengthCall(lastGen)
  /\ lastGen.seed.length = 64
  /\ lastGen.result = Err("InvalidSeedLength")

\* C7: every returned KeyPair has a 64-byte private key and a 32-byte public
\* key; privateKey[0:32] is the seed, privateKey[32:64] is the public key
\* derived from it, and the returned public key equals privateKey[32:64].
C7_KeyPairLayout ==
  \A r \in returned :
    /\ Len(r.keyPair.privateKey) = 64
    /\ Len(r.keyPair.publicKey) = 32
    /\ SubSeq(r.keyPair.privateKey, 1, 32) = r.seed
    /\ SubSeq(r.keyPair.privateKey, 33, 64) =
         GetPublicKey(SubSeq(r.keyPair.privateKey, 1, 32))
    /\ r.keyPair.publicKey = SubSeq(r.keyPair.privateKey, 33, 64)

C7_Witness ==
  /\ \E r \in returned : r.op = "generateKey"
  /\ \E r \in returned : r.op = "generateKeyFromSeed"

\* C8: generateKeyFromSeed is deterministic: all calls with the same seed
\* return the same KeyPair, whatever was called in between, and a call
\* draws nothing from the random source.
C8_Deterministic ==
  /\ [](\A a, b \in returned :
          (a.op = "generateKeyFromSeed" /\ b.op = "generateKeyFromSeed"
             /\ a.seed = b.seed) => a.keyPair = b.keyPair)
  /\ [][lastGen'.op = "generateKeyFromSeed" =>
          (entropy' = entropy /\ rng' = rng)]_vars

C8_Witness ==
  /\ \E s \in Seeds : seedCalls[s] >= 2
  /\ entropy > 0
  /\ lastGen.op = "generateKeyFromSeed"
  /\ lastGen.result.type = "value"

\* C9: when the engine reports the signature as not valid, verify()
\* resolves to false, not to an error.
C9_InvalidSignatureIsFalse ==
  \A i \in 1..Len(invs) :
    (session.kind = "verify" /\ invs[i].pc = "done"
       /\ invs[i].opAnswer = Val(FALSE)) => invs[i].outcome = Val(FALSE)

C9_Witness ==
  /\ session.kind = "verify"
  /\ \E p \in produced : session.sig = FlipBit(p.sig)
  /\ \E i \in 1..Len(invs) :
       /\ invs[i].pc = "done"
       /\ invs[i].importAnswer.type = "value"
       /\ invs[i].outcome = Val(FALSE)

\* The engine rejects the session's key material whenever it answers.
PermanentlyRejected ==
  /\ session.kind # "none"
  /\ \A ans \in ImportAnswers(<<prepared, 0>>) : IsErr(ans)

\* C10: a failed import leaves the cache as it was; an invocation that
\* finds the cache unset calls import_key again; when its import succeeds
\* it goes on to sign/verify and the context is cached; a key the engine
\* always rejects makes every invocation fail with that rejection.
C10_FailedLoadDoesNotPoison ==
  /\ [][\A i \in 1..Len(invs) :
          (prepared' = prepared /\ invs[i].pc = "awaitImport"
             /\ invs'[i].pc = "done") => key' = key]_vars
  /\ [](\A i \in 1..Len(invs) :
          /\ (~invs[i].cached /\ engineAvailable) => invs[i].imported
          /\ invs[i].importAnswer.type = "value" =>
               (invs[i].opCalled /\ key # Null)
          /\ (PermanentlyRejected /\ engineAvailable /\ invs[i].pc = "done") =>
               /\ IsErr(invs[i].outcome)
               /\ invs[i].outcome = invs[i].importAnswer
               /\ invs[i].outcome \in {Err("DataError"), Transient})

C10_Witness ==
  /\ Len(invs) >= 2
  /\ IsErr(invs[1].importAnswer)
  /\ ~invs[2].overlap
  /\ invs[2].imported
  /\ Succeeded(invs[2])
  /\ key # Null

Count(seq, x) == Cardinality({k \in 1..Len(seq) : seq[k] = x})

\* C11: an invocation whose import_key or sign/verify call the engine
\* rejects ends with exactly that error; it has called import_key at most
\* once and sign/verify at most once, and after a rejected import_key it
\* has not called sign/verify.
C11_BackendErrorsPropagate ==
  \A i \in 1..Len(invs) :
    /\ IsErr(invs[i].importAnswer) =>
         /\ invs[i].pc = "done"
         /\ invs[i].outcome = invs[i].importAnswer
         /\ invs[i].calls = <<"importKey">>
    /\ IsErr(invs[i].opAnswer) =>
         /\ invs[i].pc = "done"
         /\ invs[i].outcome = invs[i].opAnswer
    /\ Count(invs[i].calls, "importKey") <= 1
    /\ Count(invs[i].calls, session.kind) <= 1

C11_Witness ==
  /\ Len(invs) >= 2
  /\ invs[1].pc = "done" /\ IsErr(invs[1].importAnswer)
  /\ invs[2].pc = "done" /\ invs[2].opAnswer = Transient
  /\ invs[2].importAnswer.type = "value"

\* C12: without an engine, generation and preparation still return
\* normally; only the invocation of sign() / verify() fails, with the
\* missing-engine error as its outcome, calling nothing and leaving the
\* cache unset.
C12_AbsentEngineFailsOnlyInvocation ==
  ~engineAvailable =>
    /\ lastGen.op = "generateKey" => lastGen.result.type = "value"
    /\ \A r \in returned : r.keyPair.type = "value"
    /\ prepared > 0 => session.kind \in {"sign", "verify"}
    /\ key = Null
    /\ \A i \in 1..Len(invs) :
         /\ invs[i].pc = "done"
         /\ invs[i].outcome = MissingWebCrypto
         /\ invs[i].calls = <<>>

C12_Witness ==
  /\ ~engineAvailable
  /\ lastGen.op = "generateKey"
  /\ \E r \in returned : r.op = "generateKeyFromSeed"
  /\ session.kind = "sign"
  /\ Len(invs) >= 1
  /\ invs[1].outcome = MissingWebCrypto

NonBufferCall(g) ==
  /\ g.op = "generateKeyFromSeed"
  /\ ~g.seed.isUint8Array

\* C13 as stated: generateKeyFromSeed of an argument that is not a byte
\* buffer fails with InvalidSeedType, whatever its length.
C13_NonBufferIsInvalidSeedType ==
  NonBufferCall(lastGen) => lastGen.result = Err("InvalidSeedType")

\* C13 as amended: such a call fails and returns no KeyPair, with
\* InvalidSeedType when the argument's length is 32 and with
\* InvalidSeedLength when it is not.
C13_NonBufferFails ==
  /\ [](NonBufferCall(lastGen) =>
          lastGen.result = IF lastGen.seed.length = 32
                           THEN Err("InvalidSeedType")
                           ELSE Err("InvalidSeedLength"))
  /\ [][NonBufferCall(lastGen') => returned' = returned]_vars

C13_Witness ==
  /\ NonBufferCall(lastGen)
  /\ lastGen.seed.length = 32
  /\ lastGen.result = Err("InvalidSeedType")

\* The context is the answer of an import_key call of the observed session
\* that has fulfilled.
ImportedHere(ctx) ==
  /\ ctx # Null
  /\ ctx.id[1] = prepared
  /\ \E j \in 1..Len(invs) : invs[j].importAnswer = Val(ctx)

\* C14: within one session the engine's sign/verify is called, and an
\* invocation resolves, only after an import_key of that session has
\* fulfilled, and the context passed is the answer of such an import.
C14_ImportBeforeUse ==
  \A i \in 1..Len(invs) :
    /\ invs[i].opCalled => ImportedHere(invs[i].ctx)
    /\ Succeeded(invs[i]) => (invs[i].opCalled /\ ImportedHere(invs[i].ctx))
    /\ invs[i].calls \in {<<>>, <<"importKey">>, <<session.kind>>,
                          <<"importKey", session.kind>>}

C14_Witness ==
  /\ prepared >= 2
  /\ Len(invs) >= 2
  /\ Succeeded(invs[1]) /\ Succeeded(invs[2])
  /\ ~invs[2].imported
  /\ invs[2].ctx = invs[1].ctx

\* C15: the session's cache holds a context only if an import_key call of
\* that session has fulfilled with it; an import that is pending or has
\* been rejected leaves no context behind.
C15_CacheOnlyAfterSuccessfulImport ==
  /\ key # Null => ImportedHere(key)
  /\ (\A j \in 1..Len(invs) : invs[j].importAnswer.type # "value") => key = Null

C15_Witness ==
  /\ Len(invs) >= 2
  /\ IsErr(invs[1].importAnswer)
  /\ invs[2].pc = "awaitImport"
  /\ key = Null

\* C16: preparing a session makes no engine call: whenever hashAndSign or
\* hashAndVerify returns, the new session has no invocation, no engine call
\* and an unset cache, and it stays so until its first invocation, however
\* many sessions were prepared before.
C16_PreparationHasNoEngineEffect ==
  /\ [](Len(invs) = 0 => key = Null)
  /\ [][prepared' # prepared =>
          (invs' = <<>> /\ key' = Null /\ produced' = produced)]_vars

C16_Witness ==
  /\ prepared >= 2
  /\ produced # {}
  /\ session.kind = "verify"
  /\ Len(invs) = 0
  /\ key = Null

\* C17: the bytes an invocation passes to the engine's sign / verify call
\* are the content of the session's message container at the moment the
\* invocation makes that call, not the content at preparation time; the
\* call leaves the session's container as it is.
C17_MessageFlattenedAtInvocation ==
  [][\A i \in 1..Len(invs') :
       (invs'[i].opCalled /\ (i > Len(invs) \/ ~invs[i].opCalled)) =>
         /\ invs'[i].data = Flatten(session.msg)
         /\ session' = session]_vars

\* Two sign() invocations of one session, the container overwritten between
\* them: the first signed the content at preparation, the second the new
\* content, both under the same cached context.
C17_Witness ==
  /\ session.kind = "sign"
  /\ Len(invs) = 2
  /\ Succeeded(invs[1]) /\ Succeeded(invs[2])
  /\ invs[1].ctx = invs[2].ctx
  /\ ~invs[2].imported
  /\ invs[1].data = Flatten(session.msgAtPreparation)
  /\ invs[2].data = Flatten(session.msg)
  /\ invs[1].data # invs[2].data
  /\ invs[1].outcome # invs[2].outcome

\* C18: the private component d of the jwk a signing session hands to
\* importKey is bytes [0,32) of the private key argument when the argument
\* is 64 bytes long, and the argument itself when it is 32 bytes long.
C18_SeedNormalization ==
  (session.kind = "sign" /\ ImportCalls > 0) =>
    LET d == Base64urlDecode(session.jwk.d)
    IN /\ Len(session.privateKey) = 64 => d = SubSeq(session.privateKey, 1, 32)
       /\ Len(session.privateKey) = 32 => d = session.privateKey
       /\ key # Null => key.material = d

\* A session on a 64-byte private key whose import succeeded.
C18_Witness ==
  /\ session.kind = "sign"
  /\ Len(session.privateKey) = 64
  /\ \E i \in 1..Len(invs) : invs[i].imported /\ Succeeded(invs[i])
  /\ key # Null
  /\ key.material = SubSeq(session.privateKey, 1, 32)

\* C19: the key material a verification session hands to importKey is
\* exactly the bytes of the publicKey argument, also when publicKey is a
\* view onto a larger buffer: no byte outside the view is imported.
C19_ImportsOnlyTheView ==
  (session.kind = "verify" /\ ImportCalls > 0) =>
    RawKeyData(session.publicKey) = ViewBytes(session.publicKey)

\* C20: provided the engine answers every call, every started sign() /
\* verify() invocation of a session completes with a result or an error,
\* however many invocations of the session are in flight together.
C20_EveryInvocationCompletes ==
  \A i \in 1..MaxInvocations :
    (Len(invs) >= i /\ InFlight(invs[i]))
      ~> (Len(invs) >= i /\ ~InFlight(invs[i]))

\* Two invocations started together, each with its own import, both done.
C20_Witness ==
  /\ Len(invs) >= 2
  /\ invs[2].overlap
  /\ invs[1].imported /\ invs[2].imported
  /\ \A i \in 1..Len(invs) : ~InFlight(invs[i])

====
